---- MODULE Spec2Model ----
(***************************************************************************)
(* Model of the volumetric analysis core of CvsViewOnline:                 *)
(*   - findConnectedComponents (src/utils/lesionAnalysis.js): union-find   *)
(*     26-connectivity labelling of a thresholded lesion mask;             *)
(*   - the slice projector (renderSliceToDataURL in src/unnamed/part_000   *)
(*     and the SliceViewer effect in src/components/SliceViewer.js):       *)
(*     render region, pixel loop, mask overlay, cursor decoration, output; *)
(*   - the contrast percentiles (calculatePercentile and                   *)
(*     calculateContrastPercentiles in src/unnamed/part_000).              *)
(*                                                                         *)
(* Mask values are reals in the program; here they are held in tenths      *)
(* (10 stands for 1.0, 5 for 0.5), so the threshold 0.5 is Threshold = 5.  *)
(* The zoom factor and the voxel sizes are rationals / small integers so   *)
(* that Math.ceil and Math.floor are computed exactly.                     *)
(***************************************************************************)
EXTENDS Integers, Sequences, FiniteSets, TLC

VARIABLES dims, data, labels, parent, nextLabel, pos, pc, labelMap, centroids,
          lesions, view, render, series, stats, app

vars == <<dims, data, labels, parent, nextLabel, pos, pc, labelMap, centroids,
          lesions, view, render, series, stats, app>>

(***************************************************************************)
(* Bounds of the explored inputs.                                          *)
(***************************************************************************)
\* every mask is explored on every volume of at most MaxSize voxels
MaxSize == 10

\* larger volumes (MaxCols x MaxRows x MaxSlices at most) carry column masks:
\* every column x is empty, full, or full except for its last row y
MaxCols == 3

MaxRows == 12

MaxSlices == 2

(***************************************************************************)
(* Program constants.                                                      *)
(***************************************************************************)
\* data[idx] > 0.5, in tenths
Threshold == 5

\* val.count > 10
MinCount == 10

\* the value read from a typed array outside its bounds (JS undefined)
Undefined == -1

(***************************************************************************)
(* Inputs.                                                                 *)
(***************************************************************************)
Product(d) == d[1] * d[2] * d[3]

ExhaustiveDims ==
    {d \in (0..MaxSize) \X (0..MaxSize) \X (0..MaxSize) : Product(d) <= MaxSize}

ColumnDims == (1..MaxCols) \X (1..MaxRows) \X (1..MaxSlices)

InputDims == ExhaustiveDims \cup ColumnDims

\* representative mask values: foreground 1.0 or 0.6, background 0 or 0.5
FgValue(i) == IF i % 2 = 0 THEN 10 ELSE 6

BgValue(i) == IF i % 2 = 0 THEN 0 ELSE 5

MaskOf(d, F) ==
    [i \in 0..(Product(d) - 1) |-> IF i \in F THEN FgValue(i) ELSE BgValue(i)]

ExhaustiveMasks(d) == {MaskOf(d, F) : F \in SUBSET (0..(Product(d) - 1))}

ColumnMasks(d) ==
    {MaskOf(d, {i \in 0..(Product(d) - 1) :
                    \/ t[i % d[1]] = "full"
                    \/ t[i % d[1]] = "short" /\ (i \div d[1]) % d[2] < d[2] - 1}) :
        t \in [0..(d[1] - 1) -> {"empty", "short", "full"}]}

InputMasks(d) ==
    IF Product(d) <= MaxSize THEN ExhaustiveMasks(d) ELSE ColumnMasks(d)

(***************************************************************************)
(* findConnectedComponents: locals.                                        *)
(***************************************************************************)
width == dims[1]

height == dims[2]

depth == dims[3]

size == width * height * depth

getIndex(x, y, z) == x + y * width + z * width * height

isForegroundGE(v) == v >= Threshold

isForeground(v) == v > Threshold

\* Int32Array semantics: a read outside the bounds yields undefined, a write
\* outside the bounds is dropped, undefined is stored as 0
ArrayRead(a, i) == IF i \in DOMAIN a THEN a[i] ELSE Undefined

ArrayWrite(a, i, v) ==
    IF i \in DOMAIN a
    THEN [a EXCEPT ![i] = IF v = Undefined THEN 0 ELSE v]
    ELSE a

\* find(i): the root and the parent array after path compression
RECURSIVE find(_, _)
find(p, i) ==
    IF i = ArrayRead(p, i)
    THEN <<i, p>>
    ELSE LET p1 == ArrayWrite(p, i, ArrayRead(p, ArrayRead(p, i)))
         IN  find(p1, ArrayRead(p1, i))

\* rootI < rootJ, false when either side is undefined
LessThan(a, b) == a # Undefined /\ b # Undefined /\ a < b

union(p, i, j) ==
    LET fi == find(p, i)
        fj == find(fi[2], j)
        rootI == fi[1]
        rootJ == fj[1]
    IN  IF rootI # rootJ
        THEN IF LessThan(rootI, rootJ)
             THEN ArrayWrite(fj[2], rootJ, rootI)
             ELSE ArrayWrite(fj[2], rootI, rootJ)
        ELSE fj[2]

neighborsFar ==
    << <<-1, -1, -1>>, <<0, -1, -1>>, <<1, -1, -1>>,
       <<-1, 0, -1>>,  <<0, 0, -1>>,  <<1, 0, -1>>,
       <<-1, 1, -1>>,  <<0, 1, -1>>,  <<1, 1, -1>>,
       <<-1, -1, 0>>,  <<0, -1, 0>>,  <<1, -1, 0>>,
       <<-2, 0, 0>> >>

neighborsNoCorner ==
    << <<-1, -1, -1>>, <<0, -1, -1>>, <<0, -1, -1>>,
       <<-1, 0, -1>>,  <<0, 0, -1>>,  <<1, 0, -1>>,
       <<-1, 1, -1>>,  <<0, 1, -1>>,  <<1, 1, -1>>,
       <<-1, -1, 0>>,  <<0, -1, 0>>,  <<1, -1, 0>>,
       <<-1, 0, 0>> >>

neighbors ==
    << <<-1, -1, -1>>, <<0, -1, -1>>, <<1, -1, -1>>,
       <<-1, 0, -1>>,  <<0, 0, -1>>,  <<1, 0, -1>>,
       <<-1, 1, -1>>,  <<0, 1, -1>>,  <<1, 1, -1>>,
       <<-1, -1, 0>>,  <<0, -1, 0>>,  <<1, -1, 0>>,
       <<-1, 0, 0>> >>

\* the labels of the already visited foreground neighbours, in the order of
\* the neighbors table
neighborLabels(lab, x, y, z) ==
    LET found ==
            [k \in 1..Len(neighbors) |->
                LET nx == x + neighbors[k][1]
                    ny == y + neighbors[k][2]
                    nz == z + neighbors[k][3]
                IN  IF /\ nx >= 0 /\ nx < width
                       /\ ny >= 0 /\ ny < height
                       /\ nz >= 0 /\ nz < depth
                    THEN IF lab[getIndex(nx, ny, nz)] > 0
                         THEN lab[getIndex(nx, ny, nz)]
                         ELSE 0
                    ELSE 0]
    IN  SelectSeq(found, LAMBDA l : l > 0)

RECURSIVE minLabel(_)
minLabel(nl) ==
    IF Len(nl) = 1
    THEN nl[1]
    ELSE LET m == minLabel(Tail(nl))
         IN  IF m < nl[1] THEN m ELSE nl[1]

\* for (let l of neighborLabels) union(l, minLabel)
RECURSIVE unionAll(_, _, _)
unionAll(p, nl, m) ==
    IF nl = <<>> THEN p ELSE unionAll(union(p, Head(nl), m), Tail(nl), m)

(***************************************************************************)
(* Pass 1, one voxel per step; the loops over z, y, x visit the flat       *)
(* indices in ascending order, pos is the number of voxels visited.        *)
(***************************************************************************)
curX == pos % width

curY == (pos \div width) % height

curZ == pos \div (width * height)

curIdx == getIndex(curX, curY, curZ)

SkipBackground ==
    /\ pc = "pass1"
    /\ pos < size
    /\ ~isForeground(data[curIdx])
    /\ pos' = pos + 1
    /\ UNCHANGED <<dims, data, labels, parent, nextLabel, pc, labelMap, centroids,
                   lesions, view, render, series, stats, app>>

AssignFresh ==
    /\ pc = "pass1"
    /\ pos < size
    /\ isForeground(data[curIdx])
    /\ Len(neighborLabels(labels, curX, curY, curZ)) = 0
    /\ labels' = [labels EXCEPT ![curIdx] = nextLabel]
    /\ parent' = ArrayWrite(parent, nextLabel, nextLabel)
    /\ nextLabel' = nextLabel + 1
    /\ pos' = pos + 1
    /\ UNCHANGED <<dims, data, pc, labelMap, centroids, lesions, view, render, series,
                   stats, app>>

JoinNeighbors ==
    /\ pc = "pass1"
    /\ pos < size
    /\ isForeground(data[curIdx])
    /\ LET nl == neighborLabels(labels, curX, curY, curZ)
       IN  /\ Len(nl) > 0
           /\ labels' = [labels EXCEPT ![curIdx] = minLabel(nl)]
           /\ parent' = unionAll(parent, nl, minLabel(nl))
    /\ pos' = pos + 1
    /\ UNCHANGED <<dims, data, nextLabel, pc, labelMap, centroids, lesions,
                   view, render, series, stats, app>>

(***************************************************************************)
(* Pass 2: remap the roots to 1..N, rewrite the labels, accumulate the     *)
(* centroids, filter and sort the lesion list.                             *)
(***************************************************************************)
\* labelMap, with finalLabelCount starting at 1
buildLabelMapFromOne(p, n) ==
    LET roots == {i \in 1..(n - 1) : ArrayRead(p, i) = i}
    IN  [r \in roots |-> Cardinality({i \in roots : i <= r}) + 1]

\* labelMap: every label i in 1..nextLabel-1 with parent[i] = i, numbered in
\* ascending order from 1
buildLabelMap(p, n) ==
    LET roots == {i \in 1..(n - 1) : ArrayRead(p, i) = i}
    IN  [r \in roots |-> Cardinality({i \in roots : i <= r})]

\* centroids is a Map; it is held as the sequence of its entries in
\* insertion order
accumulate(cs, finalLabel, x, y, z) ==
    IF \E k \in 1..Len(cs) : cs[k].label = finalLabel
    THEN [k \in 1..Len(cs) |->
            IF cs[k].label = finalLabel
            THEN [label |-> finalLabel, x |-> cs[k].x + x, y |-> cs[k].y + y,
                  z |-> cs[k].z + z, count |-> cs[k].count + 1]
            ELSE cs[k]]
    ELSE Append(cs, [label |-> finalLabel, x |-> x, y |-> y, z |-> z, count |-> 1])

\* Math.floor(n / d)
roundDown(n, d) == n \div d

\* Math.round(n / d) for n >= 0, d > 0: halves go up
round(n, d) == (2 * n + d) \div (2 * d)

survivesFrom10(count) == count >= MinCount

survives(count) == count > MinCount

lesionList(cs) ==
    LET kept == SelectSeq(cs, LAMBDA c : survives(c.count))
    IN  [k \in 1..Len(kept) |->
            [id |-> kept[k].label,
             x |-> round(kept[k].x, kept[k].count),
             y |-> round(kept[k].y, kept[k].count),
             z |-> round(kept[k].z, kept[k].count),
             volume |-> kept[k].count]]

unsorted(s) == s

\* Array.prototype.sort with (a, b) => b.volume - a.volume: stable, by
\* volume descending
RECURSIVE sortByVolumeDesc(_)
sortByVolumeDesc(s) ==
    IF s = <<>>
    THEN <<>>
    ELSE LET r == s[Len(s)]
             done == sortByVolumeDesc(SubSeq(s, 1, Len(s) - 1))
             k == Cardinality({j \in 1..Len(done) : done[j].volume >= r.volume})
         IN  SubSeq(done, 1, k) \o <<r>> \o SubSeq(done, k + 1, Len(done))

\* for (let i = 1; i < nextLabel; i++) if (parent[i] === i) labelMap.set(...)
Remap ==
    /\ pc = "pass1"
    /\ pos >= size
    /\ labelMap' = buildLabelMap(parent, nextLabel)
    /\ centroids' = <<>>
    /\ pos' = 0
    /\ pc' = "pass2"
    /\ UNCHANGED <<dims, data, labels, parent, nextLabel, lesions, view, render, series,
                   stats, app>>

\* the coordinates recovered from the flat index i = pos
remOf(i) == i % (width * height)

zOf(i) == i \div (width * height)

yOf(i) == remOf(i) \div width

xOf(i) == remOf(i) % width

\* labels[i] > 0 is false: the voxel is left alone
RewriteSkip ==
    /\ pc = "pass2"
    /\ pos < size
    /\ ~(labels[pos] > 0)
    /\ pos' = pos + 1
    /\ UNCHANGED <<dims, data, labels, parent, nextLabel, pc, lesions, labelMap,
                   centroids, view, render, series, stats, app>>

\* the rewrite with the final label also stored into the input buffer
RewriteLabelInPlace ==
    /\ pc = "pass2"
    /\ pos < size
    /\ labels[pos] > 0
    /\ LET f == find(parent, labels[pos])
       IN  /\ f[1] \in DOMAIN labelMap
           /\ labels' = [labels EXCEPT ![pos] = labelMap[f[1]]]
           /\ data' = [data EXCEPT ![pos] = 10 * labelMap[f[1]]]
           /\ parent' = f[2]
           /\ centroids' = accumulate(centroids, labelMap[f[1]],
                                      xOf(pos), yOf(pos), zOf(pos))
    /\ pos' = pos + 1
    /\ UNCHANGED <<dims, nextLabel, pc, lesions, labelMap, view, render, series,
                   stats, app>>

\* labelMap.has(root): the final label is written and the centroid sums
\* are accumulated
RewriteLabel ==
    /\ pc = "pass2"
    /\ pos < size
    /\ labels[pos] > 0
    /\ LET f == find(parent, labels[pos])
       IN  /\ f[1] \in DOMAIN labelMap
           /\ labels' = [labels EXCEPT ![pos] = labelMap[f[1]]]
           /\ parent' = f[2]
           /\ centroids' = accumulate(centroids, labelMap[f[1]],
                                      xOf(pos), yOf(pos), zOf(pos))
    /\ pos' = pos + 1
    /\ UNCHANGED <<dims, data, nextLabel, pc, lesions, labelMap, view, render, series,
                   stats, app>>

\* the else branch: the root has no final label, the voxel is cleared
RewriteUnmapped ==
    /\ pc = "pass2"
    /\ pos < size
    /\ labels[pos] > 0
    /\ LET f == find(parent, labels[pos])
       IN  /\ f[1] \notin DOMAIN labelMap
           /\ labels' = [labels EXCEPT ![pos] = 0]
           /\ parent' = f[2]
    /\ pos' = pos + 1
    /\ UNCHANGED <<dims, data, nextLabel, pc, lesions, labelMap, centroids,
                   view, render, series, stats, app>>

\* centroids.forEach(...) and the return statement
Finalize ==
    /\ pc = "pass2"
    /\ pos >= size
    /\ lesions' = sortByVolumeDesc(lesionList(centroids))
    /\ pc' = "done"
    /\ UNCHANGED <<dims, data, labels, parent, nextLabel, pos, labelMap,
                   centroids, view, render, series, stats, app>>

\* the buffer returned as labeledMask
labeledMask == labels

NoView == [axis |-> "none"]

NoRender == [state |-> "none"]

NoApp == [loading |-> "none"]

Init ==
    /\ dims \in InputDims
    /\ data \in InputMasks(dims)
    /\ labels = [i \in 0..(Product(dims) - 1) |-> 0]
    /\ parent = [i \in 0..(Product(dims) - 1) |-> 0]
    /\ nextLabel = 1
    /\ pos = 0
    /\ pc = "pass1"
    /\ labelMap = <<>>
    /\ centroids = <<>>
    /\ lesions = <<>>
    /\ view = NoView
    /\ render = NoRender
    /\ app = NoApp
    /\ series = <<>>
    /\ stats = [op |-> "none"]

Next ==
    \/ SkipBackground
    \/ AssignFresh
    \/ JoinNeighbors
    \/ Remap
    \/ RewriteSkip
    \/ RewriteLabel
    \/ RewriteUnmapped
    \/ Finalize

Spec == Init /\ [][Next]_vars

(***************************************************************************)
(* The slice projector: the on-screen SliceViewer effect ("viewer") and    *)
(* the export function renderSliceToDataURL ("export").  A view holds the  *)
(* inputs of one render call; fovZoom and boxZoom are the rationals        *)
(* num/den, with num = 0 for a zoom factor that is not supplied; a window  *)
(* bound is <<w>>, or <<>> when it is not supplied; currentLesionLabel is  *)
(* 0 when it is not supplied.  render holds what the call produced: the    *)
(* image buffer (pixels), the vector decoration drawn over it and the      *)
(* output raster.                                                          *)
(***************************************************************************)
\* the volumes of the explored views have 1..MaxDim voxels on every axis
MaxDim == 3

\* the views that show a lesion mask have slices of at most MaxMaskVoxels
\* voxels
MaxMaskVoxels == 9

\* the views that explore the window have volumes of MaxWindowVoxels voxels
MaxWindowVoxels == 2

Axes == {"x", "y", "z"}

ZoomValues == {<<1, 2>>, <<1, 1>>, <<3, 2>>, <<2, 1>>, <<4, 1>>}

NoZoom == <<0, 1>>

PixValues == {1, 2}

\* a window bound that is not supplied
Unset == <<>>

DefaultWindowMin == 0

DefaultWindowMax == 1000

MaxIntensity == 255

targetSize == 512

CoordsIn(d) == (0..(d[1] - 1)) \X (0..(d[2] - 1)) \X (0..(d[3] - 1))

\* the zoom, box and cursor settings of a call: the zoomed and the full views
\* of the application, a view with no zoom at all, and a view given both
\* zoom factors
ViewerModes ==
    {[fovZoom |-> z, boxZoom |-> NoZoom, cursor |-> "none"] : z \in ZoomValues}
        \cup {[fovZoom |-> NoZoom, boxZoom |-> z, cursor |-> "box"] : z \in ZoomValues}
        \cup {[fovZoom |-> z, boxZoom |-> z, cursor |-> "box"] : z \in ZoomValues}
        \cup {[fovZoom |-> NoZoom, boxZoom |-> NoZoom, cursor |-> "crosshair"]}

\* renderSliceToDataURL has no cursor parameter
ExportModes == {[m EXCEPT !.cursor = "none"] : m \in ViewerModes}

PixTriples ==
    {p \in PixValues \X PixValues \X PixValues :
        Cardinality({a \in 1..3 : p[a] # 1}) <= 1}

ViewerCalls(pixTriples, modes) ==
    {[component |-> "viewer", ignoreAspectRatio |-> FALSE, pixDims |-> p,
      fovZoom |-> m.fovZoom, boxZoom |-> m.boxZoom, cursor |-> m.cursor] :
        p \in pixTriples, m \in modes}

ExportCalls(pixTriples, modes, flags) ==
    {[component |-> "export", ignoreAspectRatio |-> b, pixDims |-> p,
      fovZoom |-> m.fovZoom, boxZoom |-> m.boxZoom, cursor |-> "none"] :
        p \in pixTriples, m \in modes, b \in flags}

\* one render call: the geometry g, the call settings c and the pixel
\* inputs p
ViewOf(g, c, p) ==
    [component |-> c.component, ignoreAspectRatio |-> c.ignoreAspectRatio,
     pixDims |-> c.pixDims, fovZoom |-> c.fovZoom, boxZoom |-> c.boxZoom,
     cursor |-> c.cursor,
     axis |-> g.axis, dims |-> g.dims, coords |-> g.coords,
     hasVolume |-> p.hasVolume, volData |-> p.volData,
     hasLesion |-> p.hasLesion, lesionData |-> p.lesionData,
     showMask |-> p.showMask,
     windowMin |-> p.windowMin, windowMax |-> p.windowMax,
     currentLesionLabel |-> p.currentLesionLabel]

\* a volume whose voxel at flat index i holds i, windowed so that the
\* intensity of a pixel is the index of its voxel
RampPixels(d) ==
    [hasVolume |-> TRUE, volData |-> [i \in 0..(Product(d) - 1) |-> i],
     hasLesion |-> FALSE, lesionData |-> <<>>, showMask |-> FALSE,
     windowMin |-> <<0>>, windowMax |-> <<MaxIntensity>>,
     currentLesionLabel |-> 0]

\* every geometry up to MaxDim, under every mode
GeometryCalls ==
    ViewerCalls(PixTriples, ViewerModes)
        \cup ExportCalls(PixTriples, ExportModes, {FALSE})
        \cup ExportCalls(PixTriples \ {<<1, 1, 1>>}, ExportModes, {TRUE})

GeometryInit ==
    \E d \in (1..MaxDim) \X (1..MaxDim) \X (1..MaxDim), ax \in Axes, c \in GeometryCalls :
        \E co \in CoordsIn(d) :
            view = ViewOf([axis |-> ax, dims |-> d, coords |-> co], c, RampPixels(d))

\* voxel sizes that are zero, negative or missing
DegeneratePix == {Undefined, -2, 0} \cup PixValues

AspectModes ==
    {m \in ViewerModes : <<3, 2>> \in {m.fovZoom, m.boxZoom}}

AspectCalls ==
    LET pix == DegeneratePix \X DegeneratePix \X DegeneratePix
    IN  ViewerCalls(pix, AspectModes)
            \cup ExportCalls(pix, {[m EXCEPT !.cursor = "none"] : m \in AspectModes}, {FALSE})

AspectInit ==
    LET d == <<MaxDim, MaxDim, MaxDim>>
    IN  \E ax \in Axes, c \in AspectCalls :
            view = ViewOf([axis |-> ax, dims |-> d, coords |-> <<0, 0, 0>>], c, RampPixels(d))

\* raw intensities and window bounds of the window views
RawValues == {-2, 0, 2, 3, 1000}

WindowValues == {0, 2, 4}

WindowSettings == {Unset} \cup {<<w>> : w \in WindowValues}

WindowModes ==
    {m \in ViewerModes : m.cursor # "box" /\ m.fovZoom \in {NoZoom, <<1, 1>>}}

WindowCalls ==
    ViewerCalls({<<1, 1, 1>>}, WindowModes)
        \cup ExportCalls({<<1, 1, 1>>}, {[m EXCEPT !.cursor = "none"] : m \in WindowModes}, {FALSE})

WindowInit ==
    \E d \in (1..MaxWindowVoxels) \X (1..MaxWindowVoxels) \X (1..MaxWindowVoxels) :
        /\ Product(d) = MaxWindowVoxels
        /\ \E ax \in Axes, co \in CoordsIn(d), c \in WindowCalls,
              lo \in WindowSettings, hi \in WindowSettings,
              vol \in [0..(Product(d) - 1) -> RawValues] :
                view = ViewOf([axis |-> ax, dims |-> d, coords |-> co], c,
                              [hasVolume |-> TRUE, volData |-> vol,
                               hasLesion |-> FALSE, lesionData |-> <<>>,
                               showMask |-> FALSE,
                               windowMin |-> lo, windowMax |-> hi,
                               currentLesionLabel |-> 0])

\* the value of mask voxel i when it is foreground: the labels 1 and 2, as
\* integers and as reals that round to them (in tenths)
LabelValue(i) ==
    IF i % 4 = 0 THEN 10 ELSE IF i % 4 = 1 THEN 20 ELSE IF i % 4 = 2 THEN 16 ELSE 6

\* the mask views look along their axis, at slice c of a volume two slices
\* deep whose slices are w by h
MaskShapes ==
    {s \in [axis : Axes, w : 1..MaxMaskVoxels, h : 1..MaxMaskVoxels, c : 0..1] :
        s.w * s.h <= MaxMaskVoxels}

MaskGeometry(s) ==
    [axis |-> s.axis,
     dims |-> IF s.axis = "x" THEN <<2, s.w, s.h>>
              ELSE IF s.axis = "y" THEN <<s.w, 2, s.h>> ELSE <<s.w, s.h, 2>>,
     coords |-> IF s.axis = "x" THEN <<s.c, 0, 0>>
                ELSE IF s.axis = "y" THEN <<0, s.c, 0>> ELSE <<0, 0, s.c>>]

\* the coordinate of voxel i along the view axis, and its position in its
\* slice
alongAxis(g, i) ==
    IF g.axis = "x" THEN i % g.dims[1]
    ELSE IF g.axis = "y" THEN (i \div g.dims[1]) % g.dims[2]
    ELSE i \div (g.dims[1] * g.dims[2])

inPlane(g, i) ==
    IF g.axis = "x" THEN i \div g.dims[1]
    ELSE IF g.axis = "y"
         THEN (i % g.dims[1]) + g.dims[1] * (i \div (g.dims[1] * g.dims[2]))
    ELSE i % (g.dims[1] * g.dims[2])

sliceCoord(g) ==
    IF g.axis = "x" THEN g.coords[1]
    ELSE IF g.axis = "y" THEN g.coords[2] ELSE g.coords[3]

PlanePositions(g) ==
    {inPlane(g, i) : i \in 0..(Product(g.dims) - 1)}

\* the viewed slice holds the pattern F of foreground positions, the other
\* slice its complement
LesionOf(g, F) ==
    [i \in 0..(Product(g.dims) - 1) |->
        IF (inPlane(g, i) \in F) = (alongAxis(g, i) = sliceCoord(g))
        THEN LabelValue(i)
        ELSE BgValue(i)]

MaskModes ==
    {m \in ViewerModes : m.cursor # "box" /\ m.fovZoom \in {NoZoom, <<1, 1>>}}

MaskCalls ==
    ViewerCalls({<<1, 1, 1>>}, MaskModes)
        \cup ExportCalls({<<1, 1, 1>>}, {[m EXCEPT !.cursor = "none"] : m \in MaskModes}, {FALSE})

\* the viewer is given no label, label 1 or label 2; the export takes none
MaskInit ==
    \E s \in MaskShapes, c \in MaskCalls, l \in 0..2 :
        LET g == MaskGeometry(s)
        IN  /\ c.component = "export" => l = 0
            /\ \E F \in SUBSET PlanePositions(g) :
                  view = ViewOf(g, c,
                                [RampPixels(g.dims) EXCEPT
                                    !.hasLesion = TRUE,
                                    !.lesionData = LesionOf(g, F),
                                    !.showMask = TRUE,
                                    !.currentLesionLabel = l])

\* views whose mask is hidden or absent, and views whose volume is missing
PlainInit ==
    LET d == <<2, 2, 2>>
        calls == ViewerCalls({<<1, 1, 1>>}, ViewerModes)
                    \cup ExportCalls({<<1, 1, 1>>}, ExportModes, {FALSE})
    IN  \E ax \in Axes, c \in calls, hv \in BOOLEAN, hl \in BOOLEAN, sm \in BOOLEAN :
            LET g == [axis |-> ax, dims |-> d, coords |-> <<0, 0, 0>>]
            IN  view = ViewOf(g, c,
                              [RampPixels(d) EXCEPT
                                  !.hasVolume = hv,
                                  !.volData = IF hv THEN @ ELSE <<>>,
                                  !.hasLesion = hl,
                                  !.lesionData = IF hl THEN LesionOf(g, PlanePositions(g)) ELSE <<>>,
                                  !.showMask = sm])

\* Math.ceil(n / d) and Math.floor(n / d) for d > 0
Ceil(n, d) == -((-n) \div d)

Floor(n, d) == n \div d

Min2(a, b) == IF a < b THEN a ELSE b

Max2(a, b) == IF a > b THEN a ELSE b

\* (a && b) ? a / b : 1, as numerator and positive denominator; a missing
\* voxel size is undefined
ratioOrOne(a, b) ==
    IF a # 0 /\ a # Undefined /\ b # 0 /\ b # Undefined
    THEN (IF b < 0 THEN <<-a, -b>> ELSE <<a, b>>)
    ELSE <<1, 1>>

axisRatio(v) ==
    IF v.ignoreAspectRatio
    THEN <<1, 1>>
    ELSE IF v.axis = "x" THEN ratioOrOne(v.pixDims[3], v.pixDims[2])
    ELSE IF v.axis = "y" THEN ratioOrOne(v.pixDims[3], v.pixDims[1])
    ELSE ratioOrOne(v.pixDims[2], v.pixDims[1])

pixelAspectRatioUnchecked(v) == axisRatio(v)

pixelAspectRatio(v) ==
    LET r == axisRatio(v)
    IN  IF r[2] = 0 \/ r[1] <= 0 THEN <<1, 1>> ELSE r

fullWidth(v) == IF v.axis = "x" THEN v.dims[2] ELSE v.dims[1]

fullHeight(v) == IF v.axis = "z" THEN v.dims[2] ELSE v.dims[3]

getValSwapped(v, i, j) ==
    IF v.axis = "x" THEN v.coords[1] + j * v.dims[1] + i * v.dims[1] * v.dims[2]
    ELSE IF v.axis = "y" THEN j + v.coords[2] * v.dims[1] + i * v.dims[1] * v.dims[2]
    ELSE j + i * v.dims[1] + v.coords[3] * v.dims[1] * v.dims[2]

getVal(v, i, j) ==
    IF v.axis = "x" THEN v.coords[1] + i * v.dims[1] + j * v.dims[1] * v.dims[2]
    ELSE IF v.axis = "y" THEN i + v.coords[2] * v.dims[1] + j * v.dims[1] * v.dims[2]
    ELSE i + j * v.dims[1] + v.coords[3] * v.dims[1] * v.dims[2]

cursorX(v) == IF v.axis = "x" THEN v.coords[2] ELSE v.coords[1]

cursorYUnflipped(v) == IF v.axis = "z" THEN v.coords[2] ELSE v.coords[3]

cursorY(v) ==
    IF v.axis = "z"
    THEN fullHeight(v) - 1 - v.coords[2]
    ELSE fullHeight(v) - 1 - v.coords[3]

minDim(v) == Min2(v.dims[1], Min2(v.dims[2], v.dims[3]))

isZoomed(v) == v.fovZoom[1] # 0

\* Math.max(0, Math.min(full - render, start))
clamp(lo, hi, s) == Max2(lo, Min2(hi, s))

renderRegion(v) ==
    IF isZoomed(v)
    THEN LET a == pixelAspectRatio(v)
             rw == Ceil(minDim(v) * v.fovZoom[2], v.fovZoom[1])
             rh == Ceil(minDim(v) * v.fovZoom[2] * a[2], v.fovZoom[1] * a[1])
         IN  [renderWidth |-> rw,
              renderHeight |-> rh,
              startI |-> clamp(0, fullWidth(v) - rw, Floor(2 * cursorX(v) - rw, 2)),
              startJ |-> clamp(0, fullHeight(v) - rh, Floor(2 * cursorY(v) - rh, 2))]
    ELSE [renderWidth |-> fullWidth(v),
          renderHeight |-> fullHeight(v),
          startI |-> 0,
          startJ |-> 0]

inSlice(v, sourceI, sourceJ) ==
    /\ sourceI >= 0 /\ sourceI < fullWidth(v)
    /\ sourceJ >= 0 /\ sourceJ < fullHeight(v)

\* the source of output pixel (i, j): the viewer reads volData[idx]
\* whatever idx is; the export reads it inside the slice only and keeps
\* val = 0 otherwise (read = "none", idx unused)
sourceOf(v, rg, i, j) ==
    LET sourceI == rg.startI + i
        sourceJ == rg.startJ + j
        jFlip == fullHeight(v) - 1 - sourceJ
    IN  IF v.component = "viewer" \/ inSlice(v, sourceI, sourceJ)
        THEN [sourceI |-> sourceI, sourceJ |-> sourceJ, read |-> "voxel",
              idx |-> getVal(v, sourceI, jFlip)]
        ELSE [sourceI |-> sourceI, sourceJ |-> sourceJ, read |-> "none",
              idx |-> 0]

\* the window: a bound that is not supplied takes its default
wMin(v) == IF v.windowMin = Unset THEN DefaultWindowMin ELSE v.windowMin[1]

wMax(v) == IF v.windowMax = Unset THEN DefaultWindowMax ELSE v.windowMax[1]

rangeNoFallback(v) == wMax(v) - wMin(v)

\* wMax - wMin || 1
range(v) == IF wMax(v) - wMin(v) = 0 THEN 1 ELSE wMax(v) - wMin(v)

\* Intensities are the rationals <<num, den>>; den = 0 stands for the
\* result of a division by zero or of arithmetic on undefined: NaN when
\* num = 0, plus or minus infinity by the sign of num otherwise.
NaN == <<0, 0>>

\* volData[idx]: <<value>>, or <<>> for a read outside the array
readVoxel(v, idx) ==
    IF idx \in DOMAIN v.volData THEN <<v.volData[idx]>> ELSE <<>>

windowLevelNoOffset(v, val) ==
    IF val = <<>> THEN NaN ELSE <<val[1] * MaxIntensity, range(v)>>

\* ((val - wMin) / range) * 255
windowLevel(v, val) ==
    IF val = <<>> THEN NaN ELSE <<(val[1] - wMin(v)) * MaxIntensity, range(v)>>

\* q < 0 and q > 255; every comparison with NaN is false
isNegative(q) ==
    IF q[2] = 0 THEN q[1] < 0 ELSE q[1] * q[2] < 0

isAboveMax(q) ==
    IF q[2] = 0 THEN q[1] > 0
    ELSE (q[1] - MaxIntensity * q[2]) * q[2] > 0

\* if (pixelVal < 0) pixelVal = 0; if (pixelVal > 255) pixelVal = 255
clampIntensity(q) ==
    IF isNegative(q) THEN <<0, 1>>
    ELSE IF isAboveMax(q) THEN <<MaxIntensity, 1>>
    ELSE q

\* the store into the Uint8ClampedArray of the image: NaN becomes 0, the
\* value is clamped to 0..255 and rounded to the nearest integer, halves
\* to the even one
toUint8Clamped(q) ==
    IF q[2] = 0 THEN (IF q[1] > 0 THEN MaxIntensity ELSE 0)
    ELSE LET n == IF q[2] < 0 THEN -q[1] ELSE q[1]
             d == IF q[2] < 0 THEN -q[2] ELSE q[2]
             f == n \div d
             r == 2 * (n % d)
         IN  IF n <= 0 THEN 0
             ELSE IF n >= MaxIntensity * d THEN MaxIntensity
             ELSE IF r < d THEN f
             ELSE IF r > d THEN f + 1
             ELSE IF f % 2 = 0 THEN f ELSE f + 1

grayscale(q) ==
    LET b == toUint8Clamped(clampIntensity(q))
    IN  <<b, b, b, MaxIntensity>>

\* lesionData[idx] > 0.5; a read outside the mask is undefined and the
\* comparison false
maskOver(v, idx) ==
    /\ idx \in DOMAIN v.lesionData
    /\ v.lesionData[idx] > Threshold

\* showMask && lesionData && lesionData[idx] > 0.5
maskShown(v, idx) == v.showMask /\ v.hasLesion /\ maskOver(v, idx)

isEdgeViewerNever(v, sourceI, jFlip) == FALSE

\* the boundary test of the viewer
isEdgeViewer(v, sourceI, jFlip) ==
    IF \/ sourceI = 0 \/ sourceI = fullWidth(v) - 1
       \/ jFlip = 0 \/ jFlip = fullHeight(v) - 1
    THEN TRUE
    ELSE \/ ~maskOver(v, getVal(v, sourceI + 1, jFlip))
         \/ ~maskOver(v, getVal(v, sourceI - 1, jFlip))
         \/ ~maskOver(v, getVal(v, sourceI, jFlip + 1))
         \/ ~maskOver(v, getVal(v, sourceI, jFlip - 1))

\* the boundary test of the export
isEdgeExport(v, sourceI, jFlip) ==
    LET n1 == IF sourceI + 1 < fullWidth(v)
              THEN maskOver(v, getVal(v, sourceI + 1, jFlip)) ELSE FALSE
        n2 == IF sourceI - 1 >= 0
              THEN maskOver(v, getVal(v, sourceI - 1, jFlip)) ELSE FALSE
        n3 == IF jFlip + 1 < fullHeight(v)
              THEN maskOver(v, getVal(v, sourceI, jFlip + 1)) ELSE FALSE
        n4 == IF jFlip - 1 >= 0
              THEN maskOver(v, getVal(v, sourceI, jFlip - 1)) ELSE FALSE
    IN  ~n1 \/ ~n2 \/ ~n3 \/ ~n4

Green == <<0, MaxIntensity, 0, MaxIntensity>>

Blue == <<0, 0, MaxIntensity, MaxIntensity>>

\* createImageData: transparent black
Blank == <<0, 0, 0, 0>>

\* a pixel the loop never writes
BlankPixel == [intensity |-> NaN, edge |-> FALSE, rgba |-> Blank]

edgeColourAlwaysGreen(v, idx) == Green

\* green for the current lesion, blue for the others; a label that is not
\* supplied is falsy
edgeColour(v, idx) ==
    LET lesionLabel == round(v.lesionData[idx], 10)
        isCurrentLesion == v.currentLesionLabel # 0
                               /\ lesionLabel = v.currentLesionLabel
    IN  IF isCurrentLesion THEN Green ELSE Blue

\* one iteration of the pixel loop of the viewer
viewerPixel(v, rg, i, j) ==
    LET s == sourceOf(v, rg, i, j)
        jFlip == fullHeight(v) - 1 - s.sourceJ
        q == windowLevel(v, readVoxel(v, s.idx))
        edge == maskShown(v, s.idx) /\ isEdgeViewer(v, s.sourceI, jFlip)
    IN  [intensity |-> q,
         edge |-> edge,
         rgba |-> IF edge THEN edgeColour(v, s.idx) ELSE grayscale(q)]

\* one iteration of the pixel loop of the export
exportPixel(v, rg, i, j) ==
    LET s == sourceOf(v, rg, i, j)
        jFlip == fullHeight(v) - 1 - s.sourceJ
        val == IF s.read = "voxel" THEN readVoxel(v, s.idx) ELSE <<0>>
        q == windowLevel(v, val)
        edge == /\ s.read = "voxel"
                /\ maskShown(v, s.idx)
                /\ isEdgeExport(v, s.sourceI, jFlip)
    IN  [intensity |-> q,
         edge |-> edge,
         rgba |-> IF edge THEN Green ELSE grayscale(q)]

PixelsOf(rg) == (0..(rg.renderWidth - 1)) \X (0..(rg.renderHeight - 1))

NoDecoration == [kind |-> "none"]

\* strokeRect(cx - boxW / 2, cy - boxH / 2, boxW, boxH), kept as the centre
\* and the two sizes, the sizes as rationals
boxAt(v) ==
    LET a == pixelAspectRatio(v)
    IN  [kind |-> "box",
         cx |-> cursorX(v),
         cy |-> cursorY(v),
         boxW |-> <<minDim(v) * v.boxZoom[2], v.boxZoom[1]>>,
         boxH |-> <<minDim(v) * v.boxZoom[2] * a[2], v.boxZoom[1] * a[1]>>]

viewerDecoration(v) ==
    IF v.cursor = "crosshair"
    THEN [kind |-> "crosshair", cx |-> cursorX(v), cy |-> cursorY(v)]
    ELSE IF v.cursor = "box" /\ v.boxZoom[1] # 0 THEN boxAt(v)
    ELSE NoDecoration

exportDecoration(v) ==
    IF v.boxZoom[1] # 0 /\ ~isZoomed(v) THEN boxAt(v) ELSE NoDecoration

\* the output canvas of the export, targetSize wide; its height is a
\* rational
outputCanvas(v, rg) ==
    LET a == pixelAspectRatio(v)
    IN  [kind |-> "dataURL",
         width |-> targetSize,
         height |-> IF isZoomed(v) THEN <<targetSize, 1>>
                    ELSE IF v.ignoreAspectRatio
                         THEN <<targetSize * rg.renderHeight, rg.renderWidth>>
                    ELSE <<targetSize * a[1], a[2]>>]

\* the effect returns before any work when the volume is missing
NoWork == [state |-> "returned"]

drawn(v) ==
    LET rg == renderRegion(v)
        viewer == v.component = "viewer"
    IN  [state |-> "drawn",
         isZoomed |-> isZoomed(v),
         aspect |-> pixelAspectRatio(v),
         renderWidth |-> rg.renderWidth,
         renderHeight |-> rg.renderHeight,
         startI |-> rg.startI,
         startJ |-> rg.startJ,
         wMin |-> wMin(v),
         wMax |-> wMax(v),
         range |-> range(v),
         sources |-> IF v.hasVolume
                     THEN [px \in PixelsOf(rg) |-> sourceOf(v, rg, px[1], px[2])]
                     ELSE <<>>,
         pixels |-> [px \in PixelsOf(rg) |->
                        IF ~v.hasVolume THEN BlankPixel
                        ELSE IF viewer THEN viewerPixel(v, rg, px[1], px[2])
                        ELSE exportPixel(v, rg, px[1], px[2])],
         decoration |-> IF viewer THEN viewerDecoration(v) ELSE exportDecoration(v),
         output |-> IF viewer
                    THEN [kind |-> "canvas", width |-> rg.renderWidth,
                          height |-> <<rg.renderHeight, 1>>]
                    ELSE outputCanvas(v, rg)]

\* the effect of SliceViewer
RenderViewer ==
    /\ view.component = "viewer"
    /\ render = NoRender
    /\ render' = IF view.hasVolume THEN drawn(view) ELSE NoWork
    /\ UNCHANGED <<dims, data, labels, parent, nextLabel, pos, pc, labelMap,
                   centroids, lesions, view, series, stats, app>>

\* renderSliceToDataURL
RenderExport ==
    /\ view.component = "export"
    /\ render = NoRender
    /\ render' = drawn(view)
    /\ UNCHANGED <<dims, data, labels, parent, nextLabel, pos, pc, labelMap,
                   centroids, lesions, view, series, stats, app>>

Idle ==
    /\ dims = <<0, 0, 0>>
    /\ data = <<>>
    /\ labels = <<>>
    /\ parent = <<>>
    /\ nextLabel = 1
    /\ pos = 0
    /\ pc = "idle"
    /\ labelMap = <<>>
    /\ centroids = <<>>
    /\ lesions = <<>>

InitProjector ==
    /\ GeometryInit \/ AspectInit
    /\ render = NoRender
    /\ app = NoApp
    /\ series = <<>>
    /\ stats = [op |-> "none"]
    /\ Idle

NextProjector ==
    \/ RenderViewer
    \/ RenderExport

SpecProjector == InitProjector /\ [][NextProjector]_vars

InitPixels ==
    /\ WindowInit \/ MaskInit \/ PlainInit
    /\ render = NoRender
    /\ app = NoApp
    /\ series = <<>>
    /\ stats = [op |-> "none"]
    /\ Idle

SpecPixels == InitPixels /\ [][NextProjector]_vars

(***************************************************************************)
(* The contrast percentiles (calculatePercentile and                       *)
(* calculateContrastPercentiles in src/unnamed/part_000).  series is the   *)
(* data array of one call, indexed from 0; a percentile is the rational    *)
(* <<num, den>>; a returned value is <<v>>, or <<>> for undefined.  The    *)
(* products percentile / 100 * length are exact here.                      *)
(***************************************************************************)
\* the explored series yield at most MaxSamples samples
MaxSamples == 51

\* for (let i = 0; i < data.length; i += 100)
Stride == 100

\* the lengths at which a sample is first taken and last alone
SeriesLengths ==
    {0} \cup {Stride * (k - 1) + 1 : k \in 1..MaxSamples}
        \cup {Stride * k : k \in 1..MaxSamples}

Patterns == {"ascending", "descending", "scrambled", "ties"}

\* the value of the s-th sampled voxel
SampleValue(pattern, s) ==
    IF pattern = "ascending" THEN s - 20
    ELSE IF pattern = "descending" THEN 20 - s
    ELSE IF pattern = "scrambled" THEN ((7 * s) % 53) - 10
    ELSE ((7 * s) % 53) \div 5

\* the value of a voxel the sampling skips
SkippedValue(i) == IF i % 2 = 1 THEN 999 ELSE -999

SeriesOf(length, pattern) ==
    [i \in 0..(length - 1) |->
        IF i % Stride = 0 THEN SampleValue(pattern, i \div Stride) ELSE SkippedValue(i)]

\* the percentile pairs handleDataLoad passes
PercentilePairs ==
    {[low |-> <<2, 1>>, high |-> <<995, 10>>],
     [low |-> <<1, 100>>, high |-> <<9999, 100>>]}

Percentiles ==
    {<<0, 1>>, <<1, 100>>, <<1, 1>>, <<2, 1>>, <<50, 1>>, <<995, 10>>,
     <<9999, 100>>, <<100, 1>>}

NoStats == [op |-> "none"]

lengthOf(a) == Cardinality(DOMAIN a)

\* sampledData after the loop, as a sequence
sample(a) ==
    [k \in 1..Ceil(lengthOf(a), Stride) |-> a[Stride * (k - 1)]]

\* the place of s[i] in ascending order; equal values keep their order
rankIn(s, i) ==
    Cardinality({j \in 1..Len(s) : s[j] < s[i] \/ (s[j] = s[i] /\ j <= i)})

placeBy(s, ranks) ==
    [k \in 1..Len(s) |-> s[CHOOSE i \in 1..Len(s) : ranks[i] = k]]

\* sampledData.sort((a, b) => a - b)
sortAscending(s) == placeBy(s, [i \in 1..Len(s) |-> rankIn(s, i)])

calculatePercentileNoClamp(sortedData, percentile) ==
    LET index == Floor(percentile[1] * Len(sortedData), percentile[2] * 100)
    IN  IF index + 1 \in DOMAIN sortedData THEN <<sortedData[index + 1]>> ELSE <<>>

calculatePercentile(sortedData, percentile) ==
    LET index == Floor(percentile[1] * Len(sortedData), percentile[2] * 100)
        k == Min2(index, Len(sortedData) - 1)
    IN  IF k + 1 \in DOMAIN sortedData THEN <<sortedData[k + 1]>> ELSE <<>>

\* p1, p99 and the returned record of calculateContrastPercentiles
contrastOf(sampledData) ==
    [sampledData |-> sampledData,
     min |-> calculatePercentile(sampledData, <<1, 1>>),
     max |-> calculatePercentile(sampledData, <<9999, 100>>)]

\* the function takes the data only
calculateContrastPercentiles(a) == contrastOf(sortAscending(sample(a)))

\* handleDataLoad calls calculateContrastPercentiles(data, low, high); the
\* two extra arguments bind to no parameter
CalculateContrastPercentiles ==
    /\ stats = NoStats
    /\ \E pair \in PercentilePairs :
          LET r == calculateContrastPercentiles(series)
          IN  stats' = [op |-> "contrast", low |-> pair.low, high |-> pair.high,
                        sampledData |-> r.sampledData, min |-> r.min, max |-> r.max]
    /\ UNCHANGED <<dims, data, labels, parent, nextLabel, pos, pc, labelMap,
                   centroids, lesions, view, render, series, app>>

keep(sortedData, percentile) ==
    [op |-> "percentile", percentile |-> percentile, sampledData |-> sortedData,
     value |-> calculatePercentile(sortedData, percentile)]

\* calculatePercentile on the sorted sample of the series
CalculatePercentile ==
    /\ stats = NoStats
    /\ \E p \in Percentiles :
          stats' = keep(sortAscending(sample(series)), p)
    /\ UNCHANGED <<dims, data, labels, parent, nextLabel, pos, pc, labelMap,
                   centroids, lesions, view, render, series, app>>

InitPercentile ==
    /\ \E length \in SeriesLengths, pattern \in Patterns :
          series = SeriesOf(length, pattern)
    /\ stats = NoStats
    /\ view = NoView
    /\ render = NoRender
    /\ app = NoApp
    /\ Idle

NextPercentile ==
    \/ CalculateContrastPercentiles
    \/ CalculatePercentile

SpecPercentile == InitPercentile /\ [][NextPercentile]_vars

(***************************************************************************)
(* Z-score normalization (zNormalize in src/unnamed/part_000).  The        *)
(* program computes in binary floating point, rounding every result to    *)
(* the nearest value with a 53-bit significand (ties to even), and stores  *)
(* the output in a Float32Array (24 bits).  The model keeps the rounding   *)
(* and scales the significands down to Precision and StorePrecision bits.  *)
(* A floating-point value is <<m, e>>, standing for m * 2^e, with m = 0    *)
(* or 2^(p-1) <= |m| < 2^p.                                                *)
(***************************************************************************)
\* bits of the significand of a number
Precision == 4

\* bits of the significand of a Float32Array element
StorePrecision == 3

\* the explored volumes have 1..MaxLength voxels
MaxLength == 6

\* the exponents of the explored voxel values are -MaxExponent..MaxExponent
MaxExponent == 1

Zero == <<0, 0>>

One == <<2 ^ (Precision - 1), 1 - Precision>>

magnitude(n) == IF n < 0 THEN -n ELSE n

\* n / d rounded to the nearest integer, halves to the even one (n >= 0, d > 0)
nearestEven(n, d) ==
    LET f == n \div d
        r == 2 * (n % d)
    IN  IF r < d THEN f
        ELSE IF r > d THEN f + 1
        ELSE IF f % 2 = 0 THEN f ELSE f + 1

\* whether (a / d) / 2^k lies in 2^(p-1) .. 2^p - 1 before rounding
fits(p, a, d, k) ==
    IF k >= 0
    THEN a >= 2 ^ (p - 1) * d * 2 ^ k /\ a < 2 ^ p * d * 2 ^ k
    ELSE a * 2 ^ (-k) >= 2 ^ (p - 1) * d /\ a * 2 ^ (-k) < 2 ^ p * d

\* the exact value (num / den) * 2^e rounded to p bits
roundTo(p, num, den, e) ==
    IF num = 0 THEN Zero
    ELSE LET a == magnitude(num)
             k == CHOOSE k \in (-3 * Precision)..(3 * Precision) : fits(p, a, den, k)
             m == IF k >= 0 THEN nearestEven(a, den * 2 ^ k)
                  ELSE nearestEven(a * 2 ^ (-k), den)
             s == IF num < 0 THEN -1 ELSE 1
         IN  IF m = 2 ^ p THEN <<s * 2 ^ (p - 1), e + k + 1>> ELSE <<s * m, e + k>>

\* x + y, x - y, x * y, x / n for an integer n, x / y, Math.sqrt(x)
fadd(x, y) ==
    LET e == Min2(x[2], y[2])
    IN  roundTo(Precision, x[1] * 2 ^ (x[2] - e) + y[1] * 2 ^ (y[2] - e), 1, e)

fsub(x, y) == fadd(x, <<-y[1], y[2]>>)

fmul(x, y) == roundTo(Precision, x[1] * y[1], 1, x[2] + y[2])

fdivInt(x, n) == roundTo(Precision, x[1], n, x[2])

fdiv(x, y) ==
    roundTo(Precision, IF y[1] < 0 THEN -x[1] ELSE x[1], magnitude(y[1]), x[2] - y[2])

fsqrt(x) ==
    IF x[1] = 0 THEN Zero
    ELSE LET odd == x[2] % 2 = 1
             M == IF odd THEN 2 * x[1] ELSE x[1]
             h == (IF odd THEN x[2] - 1 ELSE x[2]) \div 2
             j == CHOOSE j \in 0..Precision :
                      4 ^ (Precision - 1) <= M * 4 ^ j /\ M * 4 ^ j < 4 ^ Precision
             r == CHOOSE r \in (2 ^ (Precision - 1))..(2 ^ Precision) :
                      /\ (2 * r - 1) * (2 * r - 1) < 4 * M * 4 ^ j
                      /\ 4 * M * 4 ^ j < (2 * r + 1) * (2 * r + 1)
         IN  roundTo(Precision, r, 1, h - j)

\* the store into the Float32Array
toFloat32(x) == roundTo(StorePrecision, x[1], 1, x[2])

\* sum after the first k voxels of a
RECURSIVE sumOf(_, _)
sumOf(a, k) == IF k = 0 THEN Zero ELSE fadd(sumOf(a, k - 1), a[k - 1])

\* sumSq after the first k voxels of a
RECURSIVE sumSqOf(_, _, _)
sumSqOf(a, mean, k) ==
    IF k = 0 THEN Zero
    ELSE fadd(sumSqOf(a, mean, k - 1),
              fmul(fsub(a[k - 1], mean), fsub(a[k - 1], mean)))

\* (data[i] - mean) / (std || 1) for every voxel
normalizedBy(a, mean, std) ==
    [i \in DOMAIN a |->
        toFloat32(fdiv(fsub(a[i], mean), IF std = Zero THEN One ELSE std))]

stdOf(a, mean) == fsqrt(fdivInt(sumSqOf(a, mean, lengthOf(a)), lengthOf(a)))

zNormalize(a) ==
    normalizedBy(a, fdivInt(sumOf(a, lengthOf(a)), lengthOf(a)),
                 stdOf(a, fdivInt(sumOf(a, lengthOf(a)), lengthOf(a))))

ZNormalize ==
    /\ stats = NoStats
    /\ stats' = [op |-> "normalize", normalized |-> zNormalize(series)]
    /\ UNCHANGED <<dims, data, labels, parent, nextLabel, pos, pc, labelMap,
                   centroids, lesions, view, render, series, app>>

VoxelValues ==
    {Zero} \cup {<<s * m, e>> : s \in {-1, 1},
                              m \in (2 ^ (Precision - 1))..(2 ^ Precision - 1),
                              e \in (-MaxExponent)..MaxExponent}

\* every constant volume of up to MaxLength voxels and every volume of two
InitNormalize ==
    /\ \/ \E n \in 1..MaxLength, c \in VoxelValues : series = [i \in 0..(n - 1) |-> c]
       \/ series \in [0..1 -> VoxelValues]
    /\ stats = NoStats
    /\ view = NoView
    /\ render = NoRender
    /\ app = NoApp
    /\ Idle

NextNormalize == ZNormalize

SpecNormalize == InitNormalize /\ [][NextNormalize]_vars

(***************************************************************************)
(* The application state (App in src/App.js) and the data-load modal      *)
(* (DataLoadModal in src/components/DataLoadModal.js).  app holds the      *)
(* React state of App; a score is held in hundredths (the slider has step  *)
(* 0.01), a map of the state ({ index: value }) as a function on the       *)
(* indices it holds.  output is what the last handler showed: an alert or  *)
(* the generated report.                                                   *)
(***************************************************************************)
\* useState([256, 256, 256]) and useState({ x: 0, y: 0, z: 0 })
InitialDims == <<256, 256, 256>>

InitialCoords == <<0, 0, 0>>

\* the slider positions explored, in hundredths
ScoreValues == {0, 49, 50, 51, 100}

\* the 0.5 of the CVS tests, in hundredths
CvsThreshold == 50

EmptyMap == <<>>

NoOutput == [kind |-> "none"]

MissingFilesAlert == [kind |-> "alert", message |-> "FLAIRSTAR and Lesion Mask are required!"]

MissingCoreAlert ==
    [kind |-> "alert", message |-> "Error processing loaded data: Missing Core Files"]

\* the studies that can be loaded: the dims of the FLAIRSTAR header and the
\* lesions findConnectedComponents returns for the mask, largest first (a
\* lesion has more than 10 voxels and its centroid lies in the volume)
Studies ==
    { [dims |-> <<4, 4, 4>>,
       lesions |-> << [id |-> 2, x |-> 2, y |-> 1, z |-> 3, volume |-> 12],
                      [id |-> 1, x |-> 1, y |-> 1, z |-> 0, volume |-> 11] >>],
      [dims |-> <<3, 3, 3>>,
       lesions |-> << [id |-> 1, x |-> 1, y |-> 1, z |-> 2, volume |-> 11] >>],
      [dims |-> <<2, 2, 2>>, lesions |-> <<>>] }

\* a selected file: none, a file loadNifti returns null for, a NIfTI file
FileKinds == {"missing", "invalid", "nifti"}

Selections ==
    {[flairStar |-> f, lesion |-> l, study |-> s] :
        f \in FileKinds, l \in FileKinds, s \in Studies}

NoFiles == [flairStar |-> "missing", lesion |-> "missing"]

\* { ...prev, [k]: v }
put(f, k, v) == [i \in (DOMAIN f) \cup {k} |-> IF i = k THEN v ELSE f[i]]

\* lesionScores[idx] || 0
scoreOr0(a, idx) == IF idx \in DOMAIN a.lesionScores THEN a.lesionScores[idx] ELSE 0

\* lesions[idx], for an index inside the list
lesionAt(a, idx) == a.lesions[idx + 1]

centerOf(l) == <<l.x, l.y, l.z>>

handleUpdateCoords(a, next) ==
    [a EXCEPT !.coords = next,
              !.lesionCoords = put(a.lesionCoords, a.lesionIndex, next)]

jumpToLesion(a, idx) ==
    IF idx < 0 \/ idx >= Len(a.lesions)
    THEN a
    ELSE [a EXCEPT !.lesionIndex = idx,
                   !.coords = IF idx \in DOMAIN a.lesionCoords
                              THEN a.lesionCoords[idx]
                              ELSE centerOf(lesionAt(a, idx)),
                   !.veinLikelihood = scoreOr0(a, idx)]

updateScore(a, val) ==
    [a EXCEPT !.veinLikelihood = val,
              !.lesionScores = put(a.lesionScores, a.lesionIndex, val)]

\* !prev[lesionIndex]
togglePRL(a) ==
    [a EXCEPT !.lesionPRL =
        put(a.lesionPRL, a.lesionIndex,
            ~(a.lesionIndex \in DOMAIN a.lesionPRL /\ a.lesionPRL[a.lesionIndex]))]

\* Object.values(lesionScores).filter(s => s >= 0.5).length
validLesionsCount(a) ==
    Cardinality({k \in DOMAIN a.lesionScores : a.lesionScores[k] >= CvsThreshold})

\* the report: the lesions of interest and the render tasks of each
isCvs(a, i) == scoreOr0(a, i) > CvsThreshold

isPrl(a, i) == i \in DOMAIN a.lesionPRL /\ a.lesionPRL[i]

interestIndices(a) == {i \in 0..(Len(a.lesions) - 1) : isCvs(a, i) \/ isPrl(a, i)}

renderTasks(a, i) ==
    IF isPrl(a, i) /\ isCvs(a, i)
    THEN << [modality |-> "flairStar", type |-> "cvs"],
            [modality |-> "phase", type |-> "prl"] >>
    ELSE IF isPrl(a, i)
    THEN << [modality |-> "phase", type |-> "prl"] >>
    ELSE << [modality |-> "flairStar", type |-> "cvs"] >>

generateReport(a) ==
    [kind |-> "report",
     cvsPlus |-> validLesionsCount(a),
     sections |-> [i \in interestIndices(a) |-> renderTasks(a, i)]]

\* the controls of the main view can be used: a volume is loaded, nothing is
\* loading and the modal does not cover the view
mainView == app.volumes.flairStar /\ app.loading = "false" /\ ~app.showLoadModal

rest == <<dims, data, labels, parent, nextLabel, pos, pc, labelMap, centroids,
          lesions, view, render, series, stats>>

\* the Load Data button
OpenLoadModal ==
    /\ app.loading = "false"
    /\ ~app.showLoadModal
    /\ app' = [app EXCEPT !.showLoadModal = TRUE, !.output = NoOutput]
    /\ UNCHANGED rest

\* the Cancel and close buttons of the modal
CloseLoadModal ==
    /\ app.loading = "false"
    /\ app.showLoadModal
    /\ app' = [app EXCEPT !.showLoadModal = FALSE, !.output = NoOutput]
    /\ UNCHANGED rest

\* handleLoadClick up to the first await of handleDataLoad
HandleLoadClick ==
    /\ app.loading = "false"
    /\ app.showLoadModal
    /\ \E files \in Selections :
          IF files.flairStar = "missing" \/ files.lesion = "missing"
          THEN app' = [app EXCEPT !.output = MissingFilesAlert]
          ELSE app' = [app EXCEPT !.loading = "Parsing NIfTI headers...",
                                  !.buffers = files,
                                  !.output = NoOutput]
    /\ UNCHANGED rest

\* parse and the check of the core files; on the error the catch block
\* alerts, finally clears loading, and handleLoadClick goes on to onClose()
LoadParse ==
    /\ app.loading = "Parsing NIfTI headers..."
    /\ IF app.buffers.flairStar # "nifti" \/ app.buffers.lesion # "nifti"
       THEN app' = [app EXCEPT !.output = MissingCoreAlert,
                               !.loading = "false",
                               !.buffers = NoFiles,
                               !.showLoadModal = FALSE]
       ELSE app' = [app EXCEPT !.dims = app.buffers.study.dims,
                               !.loading = "Normalizing volumes..."]
    /\ UNCHANGED rest

\* zNormalize and the contrast percentiles: local values only
LoadNormalize ==
    /\ app.loading = "Normalizing volumes..."
    /\ app' = [app EXCEPT !.loading = "Analyzing lesions (CCA)..."]
    /\ UNCHANGED rest

LoadAnalyze ==
    /\ app.loading = "Analyzing lesions (CCA)..."
    /\ app' = [app EXCEPT !.lesions = app.buffers.study.lesions,
                          !.loading = "Finalizing..."]
    /\ UNCHANGED rest

\* setVolumes, the reset of the persistence, the initial coords, finally,
\* and the onClose() of handleLoadClick
LoadFinalize ==
    /\ app.loading = "Finalizing..."
    /\ LET found == app.buffers.study.lesions
       IN  app' = [app EXCEPT
                      !.volumes = [flairStar |-> TRUE],
                      !.lesionCoords = EmptyMap,
                      !.lesionScores = EmptyMap,
                      !.lesionPRL = EmptyMap,
                      !.lesionIndex = IF Len(found) > 0 THEN 0 ELSE @,
                      !.coords = IF Len(found) > 0 THEN centerOf(found[1]) ELSE @,
                      !.loading = "false",
                      !.buffers = NoFiles,
                      !.showLoadModal = FALSE]
    /\ UNCHANGED rest

\* the << and >> buttons
JumpToLesion ==
    /\ mainView
    /\ \E idx \in {0, Len(app.lesions) - 1} :
          app' = [jumpToLesion(app, idx) EXCEPT !.output = NoOutput]
    /\ UNCHANGED rest

HandleNextLesion ==
    /\ mainView
    /\ app' = [(IF Len(app.lesions) = 0 THEN app
                ELSE jumpToLesion(app, (app.lesionIndex + 1) % Len(app.lesions)))
               EXCEPT !.output = NoOutput]
    /\ UNCHANGED rest

HandlePrevLesion ==
    /\ mainView
    /\ app' = [(IF Len(app.lesions) = 0 THEN app
                ELSE jumpToLesion(app, (app.lesionIndex - 1 + Len(app.lesions))
                                           % Len(app.lesions)))
               EXCEPT !.output = NoOutput]
    /\ UNCHANGED rest

\* the Reset button
Reset ==
    /\ mainView
    /\ app' = [(IF app.lesionIndex < Len(app.lesions)
                THEN handleUpdateCoords(app, centerOf(lesionAt(app, app.lesionIndex)))
                ELSE app)
               EXCEPT !.output = NoOutput]
    /\ UNCHANGED rest

\* the likelihood slider
UpdateScore ==
    /\ mainView
    /\ \E val \in ScoreValues : app' = [updateScore(app, val) EXCEPT !.output = NoOutput]
    /\ UNCHANGED rest

\* the PRL checkbox
TogglePRL ==
    /\ mainView
    /\ app' = [togglePRL(app) EXCEPT !.output = NoOutput]
    /\ UNCHANGED rest

\* the Generate Report button
GenerateReport ==
    /\ mainView
    /\ app' = [app EXCEPT !.output = generateReport(app)]
    /\ UNCHANGED rest

InitApp ==
    /\ app = [dims |-> InitialDims,
              coords |-> InitialCoords,
              lesions |-> <<>>,
              lesionIndex |-> 0,
              lesionCoords |-> EmptyMap,
              lesionScores |-> EmptyMap,
              lesionPRL |-> EmptyMap,
              veinLikelihood |-> 0,
              volumes |-> [flairStar |-> FALSE],
              showLoadModal |-> FALSE,
              loading |-> "false",
              buffers |-> NoFiles,
              output |-> NoOutput]
    /\ series = <<>>
    /\ stats = NoStats
    /\ view = NoView
    /\ render = NoRender
    /\ Idle

NextApp ==
    \/ OpenLoadModal
    \/ CloseLoadModal
    \/ HandleLoadClick
    \/ LoadParse
    \/ LoadNormalize
    \/ LoadAnalyze
    \/ LoadFinalize
    \/ JumpToLesion
    \/ HandleNextLesion
    \/ HandlePrevLesion
    \/ Reset
    \/ UpdateScore
    \/ TogglePRL
    \/ GenerateReport

SpecApp == InitApp /\ [][NextApp]_vars

(***************************************************************************)
(* Reference notions for the properties of the labeler: the foreground of  *)
(* the input mask and its 26-connected components, computed by flood fill  *)
(* over the full 26-neighbourhood.                                         *)
(***************************************************************************)
Voxels == 0..(size - 1)

Foreground == {i \in Voxels : data[i] > Threshold}

Abs(n) == IF n < 0 THEN -n ELSE n

Adjacent26(i, j) ==
    /\ i # j
    /\ Abs(xOf(i) - xOf(j)) <= 1
    /\ Abs(yOf(i) - yOf(j)) <= 1
    /\ Abs(zOf(i) - zOf(j)) <= 1

RECURSIVE Reach(_, _, _)
Reach(S, frontier, F) ==
    LET N == {j \in F \ S : \E i \in frontier : Adjacent26(i, j)}
    IN  IF N = {} THEN S ELSE Reach(S \cup N, N, F)

RECURSIVE ComponentsOf(_)
ComponentsOf(F) ==
    IF F = {}
    THEN {}
    ELSE LET seed == CHOOSE i \in F : TRUE
             C == Reach({seed}, {seed}, F)
         IN  {C} \cup ComponentsOf(F \ C)

Components == ComponentsOf(Foreground)

IdOf(C) == labeledMask[CHOOSE i \in C : TRUE]

LesionIds == {lesions[k].id : k \in 1..Len(lesions)}

Returned == pc = "done"

\* C1: two foreground voxels that no path of 26-adjacent foreground voxels
\* joins have different final labels in the returned labeledMask.
C1_SeparatedDiffer ==
    Returned =>
        \A C \in Components : \A D \in Components :
            C # D => \A i \in C : \A j \in D : labeledMask[i] # labeledMask[j]

C1_Witness ==
    /\ Returned
    /\ \E i \in Foreground : \E j \in Foreground :
          /\ zOf(i) = zOf(j) /\ yOf(i) = yOf(j) /\ xOf(j) = xOf(i) + 2
          /\ \E C \in Components : i \in C /\ j \notin C
          /\ labeledMask[i] > 0
          /\ labeledMask[j] > 0
          /\ labeledMask[i] # labeledMask[j]

\* C2: two foreground voxels joined by a path of 26-adjacent foreground
\* voxels (face, edge or corner links, in any direction) have the same final
\* label in the returned labeledMask.
C2_JoinedAgree ==
    Returned =>
        \A C \in Components : \A i \in C : \A j \in C :
            labeledMask[i] = labeledMask[j]

\* a component of two voxels linked by one corner diagonal that runs against
\* the scan order in x and y, next to a component whose labels were merged
C2_Witness ==
    /\ Returned
    /\ \E C \in Components :
          /\ Cardinality(C) = 2
          /\ \E i \in C : \E j \in C :
                /\ xOf(j) = xOf(i) + 1
                /\ yOf(j) = yOf(i) - 1
                /\ zOf(j) = zOf(i) - 1
                /\ labeledMask[i] = labeledMask[j]
                /\ labeledMask[i] > 0

\* C3: a component of exactly 10 voxels is never in the lesions list, a
\* component of exactly 11 voxels always is, with volume 11.
C3_MinimumSize ==
    Returned =>
        \A C \in Components :
            /\ Cardinality(C) = 10 => IdOf(C) \notin LesionIds
            /\ Cardinality(C) = 11 =>
                  \E k \in 1..Len(lesions) :
                      lesions[k].id = IdOf(C) /\ lesions[k].volume = 11

C3_Witness ==
    /\ Returned
    /\ \E C \in Components : \E D \in Components :
          /\ Cardinality(C) = 10
          /\ Cardinality(D) = 11
          /\ IdOf(C) \notin LesionIds
          /\ IdOf(D) \in LesionIds

Survivors == {C \in Components : Cardinality(C) > 10}

\* C4 (as stated): with N components of more than 10 voxels the ids of the
\* lesions list are exactly 1..N.
C4_IdsDenseOverSurvivors ==
    Returned => LesionIds = 1..Cardinality(Survivors)

\* C4 (amended): the ids of the lesions list are pairwise distinct, each is
\* the labeledMask label of a component of more than 10 voxels, and each
\* lies in 1..M for M the number of all components.
C4_IdsAreSurvivorLabels ==
    Returned =>
        /\ Cardinality(LesionIds) = Len(lesions)
        /\ LesionIds = {IdOf(C) : C \in Survivors}
        /\ LesionIds \subseteq 1..Cardinality(Components)

\* a component of at most 10 voxels precedes the only survivor
C4_Witness ==
    /\ Returned
    /\ Cardinality(Survivors) = 1
    /\ Cardinality(Components) = 2
    /\ LesionIds = {2}

\* C5 (as stated): labeledMask is 0 exactly on the background, at least 1 on
\* the foreground, and its non-zero values are exactly 1..M for M the number
\* of components.
C5_LabeledMaskDense ==
    Returned =>
        /\ \A i \in Voxels : (labeledMask[i] = 0) <=> (data[i] <= Threshold)
        /\ \A i \in Foreground : labeledMask[i] >= 1
        /\ {labeledMask[i] : i \in Foreground} = 1..Cardinality(Components)

MinOf(S) == CHOOSE m \in S : \A n \in S : m <= n

MaxOf(S) == CHOOSE m \in S : \A n \in S : m >= n

Xs(C) == {xOf(i) : i \in C}

Ys(C) == {yOf(i) : i \in C}

Zs(C) == {zOf(i) : i \in C}

IsCuboid(C) ==
    Cardinality(C) = (MaxOf(Xs(C)) - MinOf(Xs(C)) + 1)
                     * (MaxOf(Ys(C)) - MinOf(Ys(C)) + 1)
                     * (MaxOf(Zs(C)) - MinOf(Zs(C)) + 1)

\* c is (lo + hi) / 2 rounded to the nearest integer, halves going up
IsRoundedMean(c, S) == 2 * c - (MinOf(S) + MaxOf(S)) \in {0, 1}

\* C6: the centroid reported for a cuboid component of more than 10 voxels
\* is, per axis, the mean of the inclusive coordinate range, rounded.
C6_CuboidCentroid ==
    Returned =>
        \A C \in Survivors :
            IsCuboid(C) =>
                \E k \in 1..Len(lesions) :
                    /\ lesions[k].id = IdOf(C)
                    /\ IsRoundedMean(lesions[k].x, Xs(C))
                    /\ IsRoundedMean(lesions[k].y, Ys(C))
                    /\ IsRoundedMean(lesions[k].z, Zs(C))

\* a cuboid that extends over two or more voxels on every axis and whose
\* means in x and z are halves
C6_Witness ==
    /\ Returned
    /\ \E C \in Survivors :
          /\ IsCuboid(C)
          /\ MinOf(Xs(C)) = 1 /\ MaxOf(Xs(C)) = 2
          /\ MaxOf(Ys(C)) >= 2
          /\ MinOf(Zs(C)) = 0 /\ MaxOf(Zs(C)) = 1
          /\ \E k \in 1..Len(lesions) :
                lesions[k].id = IdOf(C) /\ lesions[k].x = 2 /\ lesions[k].z = 1

\* C7: the lesions list is ordered by volume descending.
C7_SortedByVolume ==
    Returned =>
        \A k \in 1..(Len(lesions) - 1) : lesions[k].volume >= lesions[k + 1].volume

\* the larger lesion was found second and sorted first
C7_Witness ==
    /\ Returned
    /\ Len(lesions) >= 2
    /\ lesions[1].id > lesions[2].id
    /\ lesions[1].volume > lesions[2].volume

\* C8: for an empty or all-background mask the labeledMask is all zeros and
\* the lesions list is empty.
C8_AllBackground ==
    (Returned /\ \A i \in Voxels : data[i] <= Threshold) =>
        /\ \A i \in Voxels : labeledMask[i] = 0
        /\ lesions = <<>>

\* an all-background mask that holds the value 0.5 itself
C8_Witness ==
    /\ Returned
    /\ size > 1
    /\ \A i \in Voxels : data[i] <= Threshold
    /\ \E i \in Voxels : data[i] = Threshold
    /\ \A i \in Voxels : labeledMask[i] = 0
    /\ lesions = <<>>

VolumeSize(v) == v.dims[1] * v.dims[2] * v.dims[3]

\* C10 (as stated): in zoomed mode the render window lies inside the slice
\* and every output pixel is sampled from a voxel of the slice.
C10_WindowInsideSlice ==
    (render.state = "drawn" /\ render.isZoomed) =>
        /\ 0 <= render.startI
        /\ render.startI + render.renderWidth <= fullWidth(view)
        /\ 0 <= render.startJ
        /\ render.startJ + render.renderHeight <= fullHeight(view)
        /\ \A px \in DOMAIN render.sources :
              /\ render.sources[px].read = "voxel"
              /\ inSlice(view, render.sources[px].sourceI, render.sources[px].sourceJ)
              /\ render.sources[px].idx \in 0..(VolumeSize(view) - 1)

(***************************************************************************)
(* Reference notions for the properties of the projector.  A pixel of a   *)
(* render is "backed" when its source lies in the slice; its voxel is     *)
(* then the one at column sourceI and row fullHeight - 1 - sourceJ of the *)
(* slice.                                                                  *)
(***************************************************************************)
Drawn == render.state = "drawn"

Backed(px) ==
    /\ px \in DOMAIN render.sources
    /\ inSlice(view, render.sources[px].sourceI, render.sources[px].sourceJ)

\* the volume coordinates of the voxel at column a, row b of the slice
VoxelAt(v, a, b) ==
    IF v.axis = "x" THEN <<v.coords[1], a, b>>
    ELSE IF v.axis = "y" THEN <<a, v.coords[2], b>>
    ELSE <<a, b, v.coords[3]>>

FlatIndex(v, c) == c[1] + c[2] * v.dims[1] + c[3] * v.dims[1] * v.dims[2]

ColumnOf(px) == render.sources[px].sourceI

RowOf(px) == fullHeight(view) - 1 - render.sources[px].sourceJ

RawAt(px) == view.volData[FlatIndex(view, VoxelAt(view, ColumnOf(px), RowOf(px)))]

IsGray(c) == c[1] = c[2] /\ c[2] = c[3] /\ c[4] = 255 /\ c[1] \in 0..255

\* C11: for a window with windowMin < windowMax, a voxel at or below
\* windowMin is drawn with intensity 0, a voxel at or above windowMax with
\* intensity 255, and every grayscale pixel has equal channels in 0..255.
C11_Windowing ==
    (Drawn /\ view.hasVolume /\ render.wMin < render.wMax) =>
        \A px \in DOMAIN render.pixels :
            ~render.pixels[px].edge =>
                /\ IsGray(render.pixels[px].rgba)
                /\ Backed(px) =>
                      /\ RawAt(px) <= render.wMin => render.pixels[px].rgba[1] = 0
                      /\ RawAt(px) >= render.wMax => render.pixels[px].rgba[1] = 255

C11_Witness ==
    /\ Drawn
    /\ render.wMin < render.wMax
    /\ render.wMin # 0
    /\ \E px \in DOMAIN render.pixels :
          Backed(px) /\ RawAt(px) = render.wMin /\ render.pixels[px].rgba = <<0, 0, 0, 255>>
    /\ \E px \in DOMAIN render.pixels :
          Backed(px) /\ RawAt(px) = render.wMax /\ render.pixels[px].rgba = <<255, 255, 255, 255>>

\* C12: the window range is never zero: when windowMax - windowMin is 0 the
\* division is by 1, so the intensity of a pixel that reads a voxel is
\* never NaN or infinite and a voxel at windowMin is drawn with intensity
\* 0; a bound that is not supplied is 0 for the minimum and 1000 for the
\* maximum.
C12_RangeNeverZero ==
    Drawn =>
        /\ render.range # 0
        /\ render.wMax - render.wMin = 0 => render.range = 1
        /\ render.wMax - render.wMin # 0 => render.range = render.wMax - render.wMin
        /\ render.wMin = (IF view.windowMin = Unset THEN 0 ELSE view.windowMin[1])
        /\ render.wMax = (IF view.windowMax = Unset THEN 1000 ELSE view.windowMax[1])
        /\ \A px \in DOMAIN render.pixels :
              (view.hasVolume /\ Backed(px) /\ ~render.pixels[px].edge) =>
                  /\ render.pixels[px].intensity[2] # 0
                  /\ RawAt(px) = render.wMin => render.pixels[px].rgba[1] = 0

C12_Witness ==
    /\ Drawn
    /\ view.windowMin # Unset
    /\ view.windowMin = view.windowMax
    /\ \E px \in DOMAIN render.pixels :
          Backed(px) /\ RawAt(px) = render.wMin /\ render.pixels[px].rgba[1] = 0
    /\ \E px \in DOMAIN render.pixels :
          Backed(px) /\ RawAt(px) > render.wMin /\ render.pixels[px].rgba[1] = 255

\* the two voxel sizes whose ratio is the aspect ratio of the view:
\* <<height size, width size>>
PixPair(v) ==
    IF v.axis = "x" THEN <<v.pixDims[3], v.pixDims[2]>>
    ELSE IF v.axis = "y" THEN <<v.pixDims[3], v.pixDims[1]>>
    ELSE <<v.pixDims[2], v.pixDims[1]>>

Supplied(s) == s # Undefined /\ s # 0

\* C13: the aspect ratio is the ratio of the two voxel sizes of the view
\* when both are supplied and their ratio is positive, and 1 when a size is
\* zero or missing or the ratio is negative; it is always positive, so the
\* height of the zoomed window and the height of the ROI box are positive.
C13_AspectFallback ==
    Drawn =>
        /\ render.aspect[1] > 0 /\ render.aspect[2] > 0
        /\ render.renderHeight > 0
        /\ ~view.ignoreAspectRatio =>
              IF /\ Supplied(PixPair(view)[1]) /\ Supplied(PixPair(view)[2])
                 /\ PixPair(view)[1] * PixPair(view)[2] > 0
              THEN render.aspect[1] * PixPair(view)[2] = render.aspect[2] * PixPair(view)[1]
              ELSE render.aspect = <<1, 1>>
        /\ render.decoration.kind = "box" =>
              /\ render.decoration.boxH[1] > 0
              /\ render.decoration.boxH[2] > 0

C13_Witness ==
    /\ Drawn
    /\ render.isZoomed
    /\ PixPair(view)[1] = -2
    /\ PixPair(view)[2] = 2
    /\ render.aspect = <<1, 1>>
    /\ render.renderHeight = render.renderWidth

SliceOf(v) ==
    {VoxelAt(v, a, b) : a \in 0..(fullWidth(v) - 1), b \in 0..(fullHeight(v) - 1)}

\* width and height of the slice by the axis table
TableWidth(v) == IF v.axis = "x" THEN v.dims[2] ELSE v.dims[1]

TableHeight(v) == IF v.axis = "z" THEN v.dims[2] ELSE v.dims[3]

\* C14: in full mode the raster is fullWidth by fullHeight by the axis
\* table, output pixel (i, j) shows the voxel at slice position
\* (i, fullHeight - 1 - j), read at flat index x + y*dimX + z*dimX*dimY, and
\* each voxel of the slice appears in exactly one pixel.
C14_FullModeMapping ==
    (Drawn /\ ~render.isZoomed /\ view.hasVolume) =>
        /\ render.renderWidth = TableWidth(view)
        /\ render.renderHeight = TableHeight(view)
        /\ DOMAIN render.pixels =
              (0..(TableWidth(view) - 1)) \X (0..(TableHeight(view) - 1))
        /\ \A px \in DOMAIN render.pixels :
              LET voxel == VoxelAt(view, px[1], TableHeight(view) - 1 - px[2])
              IN  /\ render.sources[px].read = "voxel"
                  /\ render.sources[px].idx = FlatIndex(view, voxel)
                  /\ ~render.pixels[px].edge =>
                        render.pixels[px].rgba =
                            grayscale(windowLevel(view, <<view.volData[FlatIndex(view, voxel)]>>))
        /\ \A voxel \in SliceOf(view) :
              Cardinality({px \in DOMAIN render.pixels :
                              render.sources[px].idx = FlatIndex(view, voxel)}) = 1

C14_Witness ==
    /\ Drawn
    /\ ~render.isZoomed
    /\ view.axis = "y"
    /\ view.dims = <<2, 3, 3>>
    /\ view.coords[2] = 1
    /\ render.sources[<<1, 0>>].idx = 15
    /\ render.pixels[<<1, 0>>].rgba = <<15, 15, 15, 255>>

\* the in-plane neighbours of slice position (a, b)
Neighbours4(a, b) == {<<a + 1, b>>, <<a - 1, b>>, <<a, b + 1>>, <<a, b - 1>>}

InsidePlane(v, n) ==
    /\ n[1] \in 0..(fullWidth(v) - 1)
    /\ n[2] \in 0..(fullHeight(v) - 1)

MaskAt(v, n) == v.lesionData[FlatIndex(v, VoxelAt(v, n[1], n[2]))]

\* mask value above 0.5, in tenths
IsForegroundAt(v, n) == MaskAt(v, n) > 5

\* the voxel of pixel px is foreground and one of its four in-plane
\* neighbours is outside the slice or not foreground
IsBoundary(px) ==
    /\ IsForegroundAt(view, <<ColumnOf(px), RowOf(px)>>)
    /\ \E n \in Neighbours4(ColumnOf(px), RowOf(px)) :
          ~InsidePlane(view, n) \/ ~IsForegroundAt(view, n)

OverlayColours == {<<0, 255, 0, 255>>, <<0, 0, 255, 255>>}

MaskIsShown == view.hasVolume /\ view.hasLesion /\ view.showMask

\* C15: with the mask shown, a pixel is drawn in an overlay colour exactly
\* when its voxel is a boundary voxel of the mask; interior foreground
\* voxels and background voxels are drawn as the windowed grayscale.
C15_BoundaryOverlay ==
    (Drawn /\ MaskIsShown) =>
        \A px \in DOMAIN render.pixels :
            Backed(px) =>
                /\ render.pixels[px].rgba \in OverlayColours <=> IsBoundary(px)
                /\ ~IsBoundary(px) =>
                      /\ IsGray(render.pixels[px].rgba)
                      /\ render.pixels[px].rgba =
                            grayscale(windowLevel(view, <<RawAt(px)>>))

C15_Witness ==
    /\ Drawn
    /\ MaskIsShown
    /\ \E px \in DOMAIN render.pixels :
          /\ Backed(px)
          /\ IsForegroundAt(view, <<ColumnOf(px), RowOf(px)>>)
          /\ ~IsBoundary(px)
          /\ IsGray(render.pixels[px].rgba)
    /\ \E px \in DOMAIN render.pixels :
          /\ Backed(px)
          /\ IsBoundary(px)
          /\ \E n \in Neighbours4(ColumnOf(px), RowOf(px)) :
                InsidePlane(view, n) /\ ~IsForegroundAt(view, n)
          /\ render.pixels[px].rgba \in OverlayColours
    /\ \E px \in DOMAIN render.pixels :
          /\ Backed(px)
          /\ ~IsForegroundAt(view, <<ColumnOf(px), RowOf(px)>>)
          /\ IsGray(render.pixels[px].rgba)

\* the mask value of the voxel of px rounded to the nearest label
RoundedLabel(px) == (MaskAt(view, <<ColumnOf(px), RowOf(px)>>) + 5) \div 10

\* C16: when a currentLesionLabel is supplied, a boundary pixel is green
\* exactly when its rounded mask label equals currentLesionLabel and blue
\* otherwise; no interior or background pixel is green or blue.
C16_HighlightCurrent ==
    (Drawn /\ MaskIsShown /\ view.currentLesionLabel # 0) =>
        \A px \in DOMAIN render.pixels :
            Backed(px) =>
                IF IsBoundary(px)
                THEN /\ render.pixels[px].rgba = <<0, 255, 0, 255>>
                            <=> RoundedLabel(px) = view.currentLesionLabel
                     /\ render.pixels[px].rgba = <<0, 0, 255, 255>>
                            <=> RoundedLabel(px) # view.currentLesionLabel
                ELSE render.pixels[px].rgba \notin OverlayColours

C16_Witness ==
    /\ Drawn
    /\ MaskIsShown
    /\ view.currentLesionLabel = 2
    /\ \E px \in DOMAIN render.pixels :
          /\ Backed(px) /\ IsBoundary(px)
          /\ MaskAt(view, <<ColumnOf(px), RowOf(px)>>) = 16
          /\ render.pixels[px].rgba = <<0, 255, 0, 255>>
    /\ \E px \in DOMAIN render.pixels :
          /\ Backed(px) /\ IsBoundary(px)
          /\ MaskAt(view, <<ColumnOf(px), RowOf(px)>>) = 6
          /\ render.pixels[px].rgba = <<0, 0, 255, 255>>
    /\ \E px \in DOMAIN render.pixels :
          /\ Backed(px)
          /\ IsForegroundAt(view, <<ColumnOf(px), RowOf(px)>>)
          /\ ~IsBoundary(px)

\* the render window of the zoomed view paired with a full view: same
\* axis, coordinates and voxel sizes, fovZoom equal to the boxZoom
ZoomedTwin(v) == renderRegion([v EXCEPT !.fovZoom = v.boxZoom])

\* |n / d - k| <= 1 for d > 0
WithinOne(n, d, k) == n - k * d <= d /\ k * d - n <= d

\* C17 (as stated): the ROI box is centred on the cursor, minDim / boxZoom
\* wide and width / aspect high, its four sides lie within one voxel of the
\* sides of the zoomed render window for every cursor position, and it is
\* never drawn in zoomed mode.
C17_BoxCoversZoomedWindow ==
    Drawn =>
        /\ render.isZoomed => render.decoration.kind # "box"
        /\ (~render.isZoomed /\ render.decoration.kind = "box") =>
              LET box == render.decoration
                  win == ZoomedTwin(view)
                  wn == box.boxW[1]
                  wd == box.boxW[2]
                  hn == box.boxH[1]
                  hd == box.boxH[2]
              IN  /\ box.cx = cursorX(view) /\ box.cy = cursorY(view)
                  /\ wn * view.boxZoom[1] = minDim(view) * view.boxZoom[2] * wd
                  /\ hn * render.aspect[1] * wd = wn * render.aspect[2] * hd
                  /\ WithinOne(2 * wd * box.cx - wn, 2 * wd, win.startI)
                  /\ WithinOne(2 * wd * box.cx + wn, 2 * wd, win.startI + win.renderWidth)
                  /\ WithinOne(2 * hd * box.cy - hn, 2 * hd, win.startJ)
                  /\ WithinOne(2 * hd * box.cy + hn, 2 * hd, win.startJ + win.renderHeight)

\* C18 (as stated): when the volume of the modality is missing the
\* projector writes no pixel, draws no decoration and produces no output
\* raster, in the viewer and in the export.
C18_MissingVolumeNoOutput ==
    (~view.hasVolume /\ render # NoRender) =>
        \/ render = NoWork
        \/ /\ Drawn
           /\ \A px \in DOMAIN render.pixels : render.pixels[px] = BlankPixel
           /\ render.decoration = NoDecoration
           /\ render.output.kind = "none"

(***************************************************************************)
(* Reference notions for the properties of the percentiles.                *)
(***************************************************************************)
\* every 100th voxel of the series, from index 0
EveryHundredth ==
    [k \in 1..((lengthOf(series) + 99) \div 100) |-> series[100 * (k - 1)]]

Occurrences(s, v) == Cardinality({k \in DOMAIN s : s[k] = v})

IsAscending(s) == \A k \in 1..(Len(s) - 1) : s[k] <= s[k + 1]

IsPermutation(s, t) ==
    /\ Len(s) = Len(t)
    /\ \A k \in DOMAIN t : Occurrences(s, t[k]) = Occurrences(t, t[k])

SmallestOf(s) == CHOOSE v \in {s[k] : k \in DOMAIN s} : \A k \in DOMAIN s : v <= s[k]

LargestOf(s) == CHOOSE v \in {s[k] : k \in DOMAIN s} : \A k \in DOMAIN s : v >= s[k]

\* p <= q for percentiles
AtMost(p, q) == p[1] * q[2] <= q[1] * p[2]

\* C19 (as stated): calculateContrastPercentiles(data, low, high) returns
\* as min the estimate at percentile low and as max the estimate at
\* percentile high.
C19_PercentilesFollowArguments ==
    stats.op = "contrast" =>
        /\ stats.min = calculatePercentile(stats.sampledData, stats.low)
        /\ stats.max = calculatePercentile(stats.sampledData, stats.high)

\* C20: the sample is every 100th voxel from index 0 in ascending order;
\* for a percentile p in 0..100 and a sample of n > 0 values
\* calculatePercentile returns the element at index
\* min(floor(p / 100 * n), n - 1), which is the minimum for p = 0, the
\* maximum for p = 100, and does not decrease as p grows.
C20_PercentileIndex ==
    (stats.op = "percentile" /\ lengthOf(series) > 0) =>
        LET n == Len(EveryHundredth)
            p == stats.percentile
            floor == (p[1] * n) \div (p[2] * 100)
            k == IF floor < n - 1 THEN floor ELSE n - 1
        IN  /\ IsPermutation(stats.sampledData, EveryHundredth)
            /\ IsAscending(stats.sampledData)
            /\ stats.value = <<stats.sampledData[k + 1]>>
            /\ p = <<0, 1>> => stats.value = <<SmallestOf(EveryHundredth)>>
            /\ p = <<100, 1>> => stats.value = <<LargestOf(EveryHundredth)>>
            /\ \A q \in Percentiles :
                  AtMost(q, p) =>
                      calculatePercentile(stats.sampledData, q)[1] <= stats.value[1]

C20_Witness ==
    /\ stats.op = "percentile"
    /\ stats.percentile = <<100, 1>>
    /\ lengthOf(series) = 901
    /\ ~IsAscending(EveryHundredth)
    /\ stats.value = <<39>>
    /\ SmallestOf(EveryHundredth) = -10

(***************************************************************************)
(* Reference notions for the property of the normalization.                *)
(***************************************************************************)
IsConstantVolume(a) == \A i \in DOMAIN a : a[i] = a[0]

\* C21 (as stated): for a constant-valued volume of n >= 1 voxels zNormalize
\* returns a buffer of n entries that are all 0.
C21_ConstantGivesZeros ==
    (stats.op = "normalize" /\ IsConstantVolume(series)) =>
        /\ DOMAIN stats.normalized = DOMAIN series
        /\ \A i \in DOMAIN series : stats.normalized[i][1] = 0

(***************************************************************************)
(* Reference notions for the properties of the union-find structure.       *)
(***************************************************************************)
\* the provisional labels allocated so far
Allocated == 1..(nextLabel - 1)

\* C22 (as stated): every provisional label allocated during the scan is an
\* index of the parent array, its entry was written, and find resolves it to
\* an allocated label.
C22_ParentHoldsEveryLabel ==
    \A l \in Allocated :
        /\ l \in DOMAIN parent
        /\ find(parent, l)[1] \in Allocated

\* the root find resolves l to, and the labels of the same set
RootOf(l) == find(parent, l)[1]

SetOf(l) == {k \in Allocated : RootOf(k) = RootOf(l)}

\* C23 (as stated): parent[l] <= l for every allocated provisional label l,
\* the root of each set is the smallest label of the set, and the path
\* compression of a find leaves the root of every label as it was.
C23_UnionBySmallerId ==
    \A l \in Allocated :
        /\ ArrayRead(parent, l) \in 1..l
        /\ RootOf(l) \in SetOf(l)
        /\ \A k \in SetOf(l) : RootOf(l) <= k
        /\ \A k \in Allocated : find(find(parent, l)[2], k)[1] = RootOf(k)

(***************************************************************************)
(* Reference notions for the consistency of the lesion records.            *)
(***************************************************************************)
\* the voxels of the returned mask that carry the label id
VoxelsOf(id) == {i \in Voxels : labeledMask[i] = id}

\* the voxels counted into the first k entries of the centroid table
RECURSIVE CountedIn(_, _)
CountedIn(cs, k) == IF k = 0 THEN 0 ELSE CountedIn(cs, k - 1) + cs[k].count

InsideBox(l) ==
    /\ VoxelsOf(l.id) # {}
    /\ MinOf(Xs(VoxelsOf(l.id))) <= l.x /\ l.x <= MaxOf(Xs(VoxelsOf(l.id)))
    /\ MinOf(Ys(VoxelsOf(l.id))) <= l.y /\ l.y <= MaxOf(Ys(VoxelsOf(l.id)))
    /\ MinOf(Zs(VoxelsOf(l.id))) <= l.z /\ l.z <= MaxOf(Zs(VoxelsOf(l.id)))

\* C26 (as stated): in the returned result the volume of every lesion is the
\* number of voxels of labeledMask that carry its id, the ids are pairwise
\* distinct, every centroid lies inside the bounding box of those voxels, and
\* the counts of all components, kept or discarded, add up to the number of
\* foreground voxels of the mask.
C26_RecordsMatchMask ==
    Returned =>
        /\ \A k \in 1..Len(lesions) :
              /\ lesions[k].volume = Cardinality(VoxelsOf(lesions[k].id))
              /\ InsideBox(lesions[k])
              /\ \A j \in 1..Len(lesions) : lesions[j].id = lesions[k].id => j = k
        /\ CountedIn(centroids, Len(centroids)) = Cardinality(Foreground)

(***************************************************************************)
(* Reference notions for the position of the cursor in the render window.  *)
(***************************************************************************)
\* the output pixel at which the cursor position (cx, cy) falls
CursorPixel == <<cursorX(view) - render.startI, cursorY(view) - render.startJ>>

InsideWindow(px) ==
    /\ px[1] \in 0..(render.renderWidth - 1)
    /\ px[2] \in 0..(render.renderHeight - 1)

\* C24: for each axis and every voxelCoord inside the volume, whenever the
\* cursor position falls inside the render window, the voxel sampled for
\* that output pixel is the voxel at voxelCoord (flat index
\* x + y*dimX + z*dimX*dimY).
C24_CursorAlignment ==
    (Drawn /\ view.hasVolume /\ InsideWindow(CursorPixel)) =>
        /\ render.sources[CursorPixel].read = "voxel"
        /\ render.sources[CursorPixel].idx = FlatIndex(view, view.coords)

C24_Witness ==
    /\ Drawn
    /\ render.isZoomed
    /\ view.axis = "x"
    /\ view.dims = <<3, 3, 3>>
    /\ view.coords = <<1, 2, 0>>
    /\ render.startI = 1 /\ render.startJ = 1
    /\ CursorPixel = <<1, 1>>
    /\ render.sources[<<1, 1>>].idx = 7

\* C27 (as stated): in zoomed mode, whenever the render window fits inside
\* the slice, it contains the in-plane position of the cursor:
\* startI <= cx < startI + renderWidth and startJ <= cy < startJ + renderHeight.
C27_WindowContainsCursor ==
    (/\ Drawn
     /\ render.isZoomed
     /\ render.renderWidth <= fullWidth(view)
     /\ render.renderHeight <= fullHeight(view)) => InsideWindow(CursorPixel)

(***************************************************************************)
(* Reference notions for the properties of the application state.          *)
(***************************************************************************)
\* no load is in progress
Settled == app.loading = "false"

\* C25 (as stated): when processing the buffers fails with "Missing Core
\* Files", onClose is not called and the data-load modal stays open.
C25_ModalStaysOpenOnFailure ==
    app.output = MissingCoreAlert => app.showLoadModal

\* C28 (as stated): after any sequence of data loads, lesion navigation and
\* Reset, the cursor coords lie inside the currently loaded volume.
C28_CoordsInsideVolume ==
    Settled => \A k \in 1..3 : 0 <= app.coords[k] /\ app.coords[k] < app.dims[k]

\* the stored score of the current lesion, 0 when none is stored
StoredScore ==
    IF app.lesionIndex \in DOMAIN app.lesionScores
    THEN app.lesionScores[app.lesionIndex]
    ELSE 0

\* C29 (as stated): after any sequence of score updates, lesion navigation
\* and data loads, the displayed veinLikelihood is the stored score of the
\* current lesion, 0 when none is stored.
C29_DisplayedScoreIsStored ==
    Settled => app.veinLikelihood = StoredScore

\* the lesions a report renders with a CVS task
RenderedAsCvs(report) ==
    {i \in DOMAIN report.sections :
        \E t \in 1..Len(report.sections[i]) : report.sections[i][t].type = "cvs"}

\* C30 (as stated): the CVS+ count of the session statistics equals the
\* number of lesions the report renders as CVS lesions.
C30_CountMatchesReport ==
    app.output.kind = "report" =>
        /\ app.output.cvsPlus = Cardinality(RenderedAsCvs(app.output))
        /\ validLesionsCount(app) = app.output.cvsPlus

====
